---- MODULE Spec2Model ----
(***************************************************************************)
(* D-Stack feedback analytics: the ingestion pipeline (ingest.py,          *)
(* utils.py) and the partition reader of the dashboard (App.py).           *)
(*                                                                         *)
(* Text values are sequences of tokens: a token is one character or one    *)
(* word that the code never looks inside ("wtf", a label name).  The       *)
(* string operations of the code (split, strip, strip_suffix, starts_with, *)
(* replace) are computed on these sequences.                               *)
(***************************************************************************)
EXTENDS Integers, Sequences, FiniteSets, TLC

VARIABLES post_pc, post_df, post_resp, post_out, post_out2,
          load_pc, load_blobs, load_gcs_ok, load_dfs, load_result,
          pc, run_metadata_file, file_at_start, metadata, fetched, issues, work_df,
          calls, raised_at, success, partitions, bucket,
          drv_pc, drv_kind, drv_size, drv_outcomes, drv_in, drv_i, drv_j, drv_list,
          drv_df, drv_log,
          fetch_pc, fetch_page, fetch_issues, fetch_requests, fetch_responses, fetch_result,
          prep_pc, prep_in, prep_out

mainVars == <<pc, run_metadata_file, file_at_start, metadata, fetched, issues, work_df,
              calls, raised_at, success, partitions, bucket>>
postVars == <<post_pc, post_df, post_resp, post_out, post_out2>>
loadVars == <<load_pc, load_blobs, load_gcs_ok, load_dfs, load_result>>
drvVars == <<drv_pc, drv_kind, drv_size, drv_outcomes, drv_in, drv_i, drv_j, drv_list,
             drv_df, drv_log>>
fetchVars == <<fetch_pc, fetch_page, fetch_issues, fetch_requests, fetch_responses,
               fetch_result>>
prepVars == <<prep_pc, prep_in, prep_out>>
stageVars == <<drvVars, fetchVars, prepVars>>
vars == <<postVars, loadVars, mainVars, stageVars>>

\* ------------------------------------------------------------------ bounds
MaxRows == 1
MaxPageLen == 2
MaxParts == 2
MaxIssues == 2
MaxTime == 3
MaxRecords == 3
MaxPages == 2
MaxPerPage == 2
MaxPrepRows == 2

\* ------------------------------------------------------------------ text
Str(w) == <<w>>
Slash == Str("/")
Unklar == Str("Unklar")

RECURSIVE SeqsUpTo(_, _)
SeqsUpTo(S, n) ==
    IF n = 0 THEN {<<>>}
    ELSE LET shorter == SeqsUpTo(S, n - 1)
         IN  shorter \cup {Append(s, x) : s \in shorter, x \in S}

Range(s) == {s[i] : i \in 1..Len(s)}

IsSpace(c) == c = " "

\* str.strip(): leading and trailing whitespace removed.
RECURSIVE StripLeft(_)
StripLeft(s) ==
    IF s # <<>> /\ IsSpace(Head(s)) THEN StripLeft(Tail(s)) ELSE s

RECURSIVE StripRight(_)
StripRight(s) ==
    IF s # <<>> /\ IsSpace(s[Len(s)]) THEN StripRight(SubSeq(s, 1, Len(s) - 1)) ELSE s

Strip(s) == StripRight(StripLeft(s))

\* str.split(","): the pieces between the commas; "" splits into [""].
RECURSIVE SplitComma(_, _, _)
SplitComma(s, cur, acc) ==
    IF s = <<>> THEN Append(acc, cur)
    ELSE IF Head(s) = "," THEN SplitComma(Tail(s), <<>>, Append(acc, cur))
    ELSE SplitComma(Tail(s), Append(cur, Head(s)), acc)

Split(s) == SplitComma(s, <<>>, <<>>)

\* Expr.str.strip_suffix("/"): one trailing "/" removed, if there is one.
StripSuffix(s) ==
    IF s # <<>> /\ s[Len(s)] = "/" THEN SubSeq(s, 1, Len(s) - 1) ELSE s

EndsWithSlash(s) == s # <<>> /\ s[Len(s)] = "/"

\* ------------------------------------------------------------------ configuration
\* ingest.py: the vocabulary read from keyword_lists/keywords_config_v1.txt.
LABELS == <<Str("A"), Str("B")>>

\* ingest.py: EXCLUDE_PAGES.
EXCLUDE_PAGES ==
    { <<"/", "beteiligung?utm_source=chatgpt.com">>,
      <<"/", "wtf">>,
      <<"/", "landkarte", "/", " Tech-Stack Aufnahmekriterien & Prozess">> }

\* utils.py: the list postprocess_issues filters on.
exclude_pages ==
    { <<"/", "beteiligung?utm_source=chatgpt.com">>,
      <<"/", "wtf">> }

ViaOpenCode == Str("Via OpenCode")
Home == Str("home")

\* ------------------------------------------------------------------ classifier
\* validate_labels without the membership test: every stripped piece is kept.
ValidateNoFilter(labels_str, allowed_labels) ==
    LET pieces == Split(labels_str)
    IN  [i \in 1..Len(pieces) |-> Strip(pieces[i])]

\* validate_labels: the stripped pieces of the response that are in the
\* vocabulary, in the order of the response.
validate_labels(labels_str, allowed_labels) ==
    LET pieces == Split(labels_str)
        labels == [i \in 1..Len(pieces) |-> Strip(pieces[i])]
    IN  SelectSeq(labels, LAMBDA l : l \in Range(allowed_labels))

\* What one remote call does: it throws, or it returns a text (generate_content)
\* or a score in tenths (analyze_sentiment).
Throw == [kind |-> "throw"]
Text(t) == [kind |-> "text", text |-> t]
Score(x) == [kind |-> "score", score |-> x]

\* What a function call does: it returns a value or it raises.
Ok(v) == [raised |-> FALSE, value |-> v]
Raised(e) == [raised |-> TRUE, error |-> e]

\* classify_issue_multilabel: [] when the call throws, else the validated labels.
classify_issue_multilabel(outcome, labels) ==
    IF outcome.kind = "throw" THEN Ok(<<>>)
    ELSE Ok(validate_labels(Strip(outcome.text), labels))

\* get_sentiment_score without its except clause: a throwing call propagates.
SentimentRethrows(outcome, text_content) ==
    IF text_content = <<>> THEN Ok(0)
    ELSE IF outcome.kind = "throw" THEN Raised("analyze_sentiment")
    ELSE Ok(outcome.score)

\* get_sentiment_score: 0.0 for an empty text and when the call throws.
get_sentiment_score(outcome, text_content) ==
    IF text_content = <<>> THEN Ok(0)
    ELSE IF outcome.kind = "throw" THEN Ok(0)
    ELSE Ok(outcome.score)

\* add_issue_org_attribution: "Unklar" when the call throws, else the stripped text.
add_issue_org_attribution(outcome) ==
    IF outcome.kind = "throw" THEN Ok(Unklar)
    ELSE Ok(Strip(outcome.text))

\* ------------------------------------------------------------------ tables
\* A polars DataFrame: its column names and its rows, each row a function
\* from the column names to values.
Table(cols, rows) == [cols |-> cols, rows |-> rows]

MapSeq(s, Op(_)) == [i \in 1..Len(s) |-> Op(s[i])]

\* df.with_columns(<values>.alias(name)): the column added, or replaced.
SetCol(row, name, v) ==
    [c \in DOMAIN row \cup {name} |-> IF c = name THEN v ELSE row[c]]

WithColumn(df, name, vals) ==
    Table(df.cols \cup {name},
          [i \in 1..Len(df.rows) |-> SetCol(df.rows[i], name, vals[i])])

\* ------------------------------------------------------------------ postprocessor
\* utils.postprocess_issues(df); it reads the columns labels and form_page.
PostprocessColumns == {"labels", "form_page"}

PostLabels(row) ==
    IF Len(row.labels) = 0 THEN SetCol(row, "labels", <<Unklar>>) ELSE row

PostFormPage(row) ==
    IF row.form_page = Slash THEN SetCol(row, "form_page", Home)
    ELSE SetCol(row, "form_page", StripSuffix(row.form_page))

postprocess_issues(df) ==
    LET labelled == MapSeq(df.rows, PostLabels)
        kept == SelectSeq(labelled, LAMBDA r : r.form_page \notin exclude_pages)
    IN  Table(df.cols, MapSeq(kept, PostFormPage))

\* ------------------------------------------------------------------ inputs
PageTokens == {"/", "wtf", "a"}

FormPages ==
    SeqsUpTo(PageTokens, MaxPageLen)
        \cup EXCLUDE_PAGES
        \cup {Append(p, "/") : p \in EXCLUDE_PAGES}
        \cup {ViaOpenCode}

\* Responses of the labelling model: in and out of the vocabulary, padded,
\* empty pieces, the sentinel, nothing at all.
Responses ==
    { <<"A">>,
      <<"A", ",", " ", "C", ",", " ", "B">>,
      <<"C">>,
      <<>>,
      <<" ", "B", " ", ",", "A", " ">>,
      <<"Unklar">>,
      <<"A", ",", ",", "C">> }

ClassifierOutcomes == {Throw} \cup {Text(r) : r \in Responses}

\* ------------------------------------------------------------------ pipeline data
\* A timestamp text of the tracker or of the metadata file.  IsoZ(t) is the
\* instant t written as "YYYY-MM-DDTHH:MM:SS.fffZ"; Garbage is a text that is
\* no timestamp; NoneTs is Python's None.
IsoZ(t) == [fmt |-> "Z", t |-> t]
Garbage == [fmt |-> "bad", t |-> 0]
NoneTs == [fmt |-> "none", t |-> 0]

Times == 1..MaxTime
TimeTexts == {IsoZ(t) : t \in Times} \cup {Garbage}

\* datetime.fromisoformat(text.replace('Z', '+00:00')).
fromisoformat(text) ==
    IF text.fmt = "Z" THEN Ok(text.t) ELSE Raised("ValueError")

\* str.strptime(pl.Datetime, "%Y-%m-%dT%H:%M:%S%.fZ"), strict.
strptime(text) ==
    IF text.fmt = "Z" THEN Ok(text.t) ELSE Raised("ComputeError")

\* datetime.isoformat() + "Z".
isoformatZ(t) == IsoZ(t)

FormPrefix == "Feedback für die Seite"
Boilerplate == "**Feedback:** <br>"

\* ingest.py configuration.
KEYWORDS_VERSION == 1
BATCH_SIZE == 10
RATE_LIMIT_SLEEP == 2
RATE_LIMIT_ERROR_SLEEP == 5
IDS_TO_EXCLUDE == 1..8
DESC_TO_EXCLUDE == { <<>>, <<"test">>, <<"Test">> }
LabelsColumn == "labels_v1"

\* The issues of the tracker: iid, title, description, created_at.  The other
\* fields of an issue are carried through the pipeline unread and are left out.
Contents ==
    { [title |-> <<FormPrefix, " ", "/", "a", "/">>, description |-> <<Boilerplate, "Text">>],
      [title |-> <<"Vorschlag">>, description |-> <<"Anderer Text">>],
      [title |-> <<FormPrefix, " ", "/", "a", "/">>, description |-> <<Boilerplate, "test">>] }
Iids == {8, 9, 10}

Issues ==
    { [iid |-> i, title |-> c.title, description |-> c.description, created_at |-> ts] :
        i \in Iids, c \in Contents, ts \in TimeTexts }

\* What the tracker returns: issues with distinct iids, oldest first (the
\* request asks for order_by=created_at, sort=asc).
FetchResults ==
    { s \in UNION { [1..n -> Issues] : n \in 0..MaxIssues } :
        \A i, j \in 1..Len(s) :
            i < j => /\ s[i].iid # s[j].iid
                     /\ (s[i].created_at.fmt = "Z" /\ s[j].created_at.fmt = "Z")
                            => s[i].created_at.t <= s[j].created_at.t }

\* The run metadata file: missing, unparsable, or JSON with these keys.
Metadata(last, n_fetched, n_processed) ==
    [last_successful_run |-> last, last_fetched_issues |-> n_fetched,
     total_issues_processed |-> n_processed]

NoPriorRun == [last_successful_run |-> NoneTs, last_fetched_issues |-> 0]

FileMissing == [state |-> "missing", data |-> NoPriorRun]
FileCorrupt == [state |-> "corrupt", data |-> NoPriorRun]
FileJson(m) == [state |-> "json", data |-> m]

MetadataFiles ==
    {FileMissing, FileCorrupt, FileJson(Metadata(NoneTs, 0, 0))}
        \cup {FileJson(Metadata(IsoZ(t), 1, 1)) : t \in Times}

Dates == {"2026-01-01", "2026-01-02"}
NoPartition == [written |-> FALSE, df |-> Table({}, <<>>)]
Partition(d) == [written |-> TRUE, df |-> d]

SentimentOutcomes == {Throw, Score(-7)}
LabelOutcomes == {Throw, Text(<<"A", ",", " ", "C", ",", " ", "B">>)}
OrgOutcomes == {Throw, Text(<<" ", "publicplan GmbH">>)}

\* ------------------------------------------------------------------ pipeline stages
\* load_run_metadata without its except clause: an unparsable file raises.
LoadWithoutExcept(file) ==
    IF file.state = "missing" THEN Ok(NoPriorRun)
    ELSE IF file.state = "corrupt" THEN Raised("JSONDecodeError")
    ELSE Ok(file.data)

\* load_run_metadata: the parsed file; the default when the file is missing
\* or json.load raises.
load_run_metadata(file) ==
    IF file.state = "missing" THEN Ok(NoPriorRun)
    ELSE IF file.state = "corrupt" THEN Ok(NoPriorRun)
    ELSE Ok(file.data)

\* The filter loop with >= in place of >: a record created at the watermark is kept.
FilterNotBefore(issue_list, last_run_dt, new_issues) ==
    LET RECURSIVE go(_, _)
        go(rest, acc) ==
            IF rest = <<>> THEN Ok(acc)
            ELSE LET created_at_dt == fromisoformat(Head(rest).created_at)
                 IN  IF created_at_dt.raised THEN created_at_dt
                     ELSE IF created_at_dt.value >= last_run_dt
                          THEN go(Tail(rest), Append(acc, Head(rest)))
                          ELSE go(Tail(rest), acc)
    IN  go(issue_list, new_issues)

\* main, lines 358-371: the issues created after the last successful run.
RECURSIVE FilterAfter(_, _, _)
FilterAfter(issue_list, last_run_dt, new_issues) ==
    IF issue_list = <<>> THEN Ok(new_issues)
    ELSE LET created_at_dt == fromisoformat(Head(issue_list).created_at)
         IN  IF created_at_dt.raised THEN created_at_dt
             ELSE IF created_at_dt.value > last_run_dt
                  THEN FilterAfter(Tail(issue_list), last_run_dt, Append(new_issues, Head(issue_list)))
                  ELSE FilterAfter(Tail(issue_list), last_run_dt, new_issues)

FilterNew(issue_list, last_run_iso) ==
    IF last_run_iso.fmt = "none" THEN Ok(issue_list)
    ELSE LET last_run_dt == fromisoformat(last_run_iso)
         IN  IF last_run_dt.raised THEN last_run_dt
             ELSE FilterAfter(issue_list, last_run_dt.value, <<>>)

\* utils.clean_issues_df: timestamps parsed, seed iids dropped, one row kept
\* per (title, description).  unique() keeps any one row of a group and
\* returns the rows in no particular order: every such result is possible.
IssueColumns == {"iid", "title", "description", "created_at"}

DedupKey(row) == <<row.title, row.description>>

UniqueResults(rows) ==
    LET keys == { DedupKey(rows[i]) : i \in 1..Len(rows) }
        n == Cardinality(keys)
    IN  { s \in [1..n -> Range(rows)] :
            \A i, j \in 1..n : DedupKey(s[i]) = DedupKey(s[j]) => i = j }

ParsedRows(issue_list) ==
    [i \in 1..Len(issue_list) |->
        [iid |-> issue_list[i].iid, title |-> issue_list[i].title,
         description |-> issue_list[i].description,
         created_at |-> strptime(issue_list[i].created_at).value]]

clean_issues_df(issue_list, rows_to_exclude) ==
    IF \E i \in 1..Len(issue_list) : strptime(issue_list[i].created_at).raised
    THEN {Raised("ComputeError")}
    ELSE LET kept == SelectSeq(ParsedRows(issue_list), LAMBDA r : r.iid \notin rows_to_exclude)
         IN  { Ok(Table(IssueColumns, rows)) : rows \in UniqueResults(kept) }

\* utils.prepare_issues_df: desc_clean, is_from_form, form_page; the rows whose
\* desc_clean is one of desc_to_exclude are dropped.
PreparedRow(row) ==
    LET desc_clean == SelectSeq(row.description, LAMBDA tok : tok # Boilerplate)
        is_from_form == row.title # <<>> /\ Head(row.title) = FormPrefix
    IN  [iid |-> row.iid, title |-> row.title, description |-> row.description,
         created_at |-> row.created_at, desc_clean |-> desc_clean,
         is_from_form |-> is_from_form,
         form_page |-> IF is_from_form THEN Strip(Tail(row.title)) ELSE ViaOpenCode]

prepare_issues_df(d, desc_to_exclude) ==
    Table(d.cols \cup {"desc_clean", "is_from_form", "form_page"},
          SelectSeq(MapSeq(d.rows, PreparedRow),
                    LAMBDA r : r.desc_clean \notin desc_to_exclude))

\* add_sentiment_scores: get_sentiment_score on every desc_clean; nothing is
\* caught here.
add_sentiment_scores(d, outcomes) ==
    LET scores == [i \in 1..Len(d.rows) |-> get_sentiment_score(outcomes[i], d.rows[i].desc_clean)]
    IN  IF \E i \in 1..Len(scores) : scores[i].raised
        THEN Raised("analyze_sentiment")
        ELSE Ok(WithColumn(d, "sentiment", [i \in 1..Len(scores) |-> scores[i].value]))

\* add_labels: one classifier call per row, [] for a call that raises; the
\* column is written at the end of each batch, so not at all for no rows.
add_labels(d, outcomes) ==
    LET results == [i \in 1..Len(d.rows) |-> classify_issue_multilabel(outcomes[i], LABELS)]
        labels_list == [i \in 1..Len(results) |->
                           IF results[i].raised THEN <<>> ELSE results[i].value]
    IN  IF Len(d.rows) = 0 THEN d ELSE WithColumn(d, LabelsColumn, labels_list)

\* add_organization_attribution: the same loop with "Unklar" for a call that raises.
add_organization_attribution(d, outcomes) ==
    LET results == [i \in 1..Len(d.rows) |-> add_issue_org_attribution(outcomes[i])]
        org_list == [i \in 1..Len(results) |->
                        IF results[i].raised THEN Unklar ELSE results[i].value]
    IN  IF Len(d.rows) = 0 THEN d ELSE WithColumn(d, "org", org_list)

\* The call u.postprocess_issues(df_org, KEYWORDS_VERSION) of main against
\* def postprocess_issues(df): a call with another number of positional
\* arguments is a TypeError, a missing column a ColumnNotFoundError.
PostprocessParameters == 1

CallPostprocess(args) ==
    IF Len(args) # PostprocessParameters THEN Raised("TypeError")
    ELSE IF ~(PostprocessColumns \subseteq args[1].cols) THEN Raised("ColumnNotFoundError")
    ELSE Ok(postprocess_issues(args[1]))

\* main, step 7: feedback_round from the year of created_at.
Year(t) == 2024 + t
FeedbackRound(row) == SetCol(row, "feedback_round", IF Year(row.created_at) = 2026 THEN 2 ELSE 1)

\* upload_to_gcs: the partition file copied to the blob of its name, unless the
\* credentials are missing or the client fails; it never raises.
upload_to_gcs(blobs, date, local, works) ==
    IF works /\ local[date].written THEN [blobs EXCEPT ![date] = local[date]] ELSE blobs

\* main, lines 424-430: the metadata of this run.
MaxCreatedAt(rows) ==
    IF rows = <<>> THEN NoneTs
    ELSE isoformatZ(CHOOSE t \in {rows[i].created_at : i \in 1..Len(rows)} :
                        \A i \in 1..Len(rows) : rows[i].created_at <= t)

\* save_run_metadata: the file rewritten; a failure is logged, and leaves the
\* file as it was or truncated.
save_run_metadata(file, m, written) ==
    IF written = "ok" THEN FileJson(m)
    ELSE IF written = "truncated" THEN FileCorrupt
    ELSE file

\* An except handler that rewrites the metadata file with an empty watermark.
ExceptResetsMetadata(file) == FileJson(Metadata(NoneTs, 0, 0))

\* main, lines 436-438: the failure is logged; nothing is written.
ExceptHandler(file) == file

\* ------------------------------------------------------------------ specifications at rest
\* Each specification below moves its own variables and holds the others at
\* these values.
EmptyFrame == [raised |-> FALSE, cols |-> {}, rows |-> {}]

PostIdle ==
    /\ post_pc = "off"
    /\ post_df = Table({}, <<>>)
    /\ post_resp = <<>>
    /\ post_out = Table({}, <<>>)
    /\ post_out2 = Table({}, <<>>)

LoadIdle ==
    /\ load_pc = "off"
    /\ load_blobs = <<>>
    /\ load_gcs_ok = TRUE
    /\ load_dfs = <<>>
    /\ load_result = EmptyFrame

NoCalls == [sentiment |-> <<>>, labels |-> <<>>, org |-> <<>>]

MainIdle ==
    /\ pc = "off"
    /\ run_metadata_file = FileMissing
    /\ file_at_start = FileMissing
    /\ metadata = NoPriorRun
    /\ fetched = <<>>
    /\ issues = <<>>
    /\ work_df = Table({}, <<>>)
    /\ calls = NoCalls
    /\ raised_at = ""
    /\ success = "None"
    /\ partitions = [d \in Dates |-> NoPartition]
    /\ bucket = [d \in Dates |-> NoPartition]

DrvIdle ==
    /\ drv_pc = "off"
    /\ drv_kind = "labels"
    /\ drv_size = 1
    /\ drv_outcomes = <<>>
    /\ drv_in = Table({}, <<>>)
    /\ drv_i = 0
    /\ drv_j = 0
    /\ drv_list = <<>>
    /\ drv_df = Table({}, <<>>)
    /\ drv_log = <<>>

FetchIdle ==
    /\ fetch_pc = "off"
    /\ fetch_page = 1
    /\ fetch_issues = <<>>
    /\ fetch_requests = <<>>
    /\ fetch_responses = <<>>
    /\ fetch_result = [state |-> "none", value |-> <<>>]

PrepIdle ==
    /\ prep_pc = "off"
    /\ prep_in = Table({}, <<>>)
    /\ prep_out = Table({}, <<>>)

StageIdle == DrvIdle /\ FetchIdle /\ PrepIdle

\* ------------------------------------------------------------------ partition reader
\* App.load_data.  A partition file is a table whose columns all have a
\* concrete dtype; a column load_data adds with pl.lit(None) has dtype Null.
\* nulls names the columns of dtype Null.
\* A null cell; a cell with a value v is <<v>>.
NULL == <<>>

Frame(cols, nulls, rows) == [cols |-> cols, nulls |-> nulls, rows |-> rows]

\* df.with_columns(pl.lit(None).alias(col)) for every missing column, then
\* df.select(sorted(all_columns)).
Aligned(df, all_columns) ==
    LET missing_cols == all_columns \ df.cols
    IN  Frame(all_columns, df.nulls \cup missing_cols,
              [i \in 1..Len(df.rows) |->
                  [c \in all_columns |->
                      IF c \in missing_cols THEN NULL ELSE df.rows[i][c]]])

\* pl.concat(dfs), how="vertical": the frames are appended to the first one,
\* column by column.  A column of dtype Null in the frame appended is cast to
\* the dtype the column has so far; a typed column appended to a column that
\* is of dtype Null so far is a SchemaError.
RECURSIVE ConcatFrom(_, _)
ConcatFrom(acc, rest) ==
    IF rest = <<>> THEN [raised |-> FALSE, df |-> acc]
    ELSE LET next == Head(rest)
         IN  IF \E c \in acc.cols : c \in acc.nulls /\ c \notin next.nulls
             THEN [raised |-> TRUE, error |-> "SchemaError"]
             ELSE ConcatFrom(Frame(acc.cols, acc.nulls, acc.rows \o next.rows), Tail(rest))

Concat(dfs) == ConcatFrom(Head(dfs), Tail(dfs))

\* DataFrame.unique(subset=["iid"], keep="last"): of the rows with one iid the
\* last stays.  The order of the rows returned is unspecified: the result is
\* the set of the rows kept.
UniqueKeepLast(rows) ==
    { rows[i] : i \in { k \in 1..Len(rows) :
                          \A j \in (k + 1)..Len(rows) : rows[j].iid # rows[k].iid } }

\* Lines 75-87: align, concatenate, deduplicate.
Reconcile(dfs) ==
    LET all_columns == UNION { dfs[i].cols : i \in 1..Len(dfs) }
        aligned_dfs == [i \in 1..Len(dfs) |-> Aligned(dfs[i], all_columns)]
        cat == Concat(aligned_dfs)
    IN  IF cat.raised THEN [raised |-> TRUE, error |-> cat.error]
        ELSE [raised |-> FALSE, cols |-> all_columns, rows |-> UniqueKeepLast(cat.df.rows)]

\* The blobs bucket.list_blobs returns, in the order of their names; the
\* partitions are named by their processing date.
PartColumns == { {"iid"}, {"iid", "x"}, {"iid", "y"}, {"iid", "x", "y"} }
PartIids == { <<>>, <<9>>, <<10>>, <<9, 10>>, <<9, 9>> }

\* The partition at position p of the listing: every value other than the
\* iid is p, so that a row tells the partition it was read from.
PartFrame(p, cols, iids) ==
    Frame(cols, {},
          [i \in 1..Len(iids) |-> [c \in cols |-> IF c = "iid" THEN iids[i] ELSE <<p>>]])

Blobs == [parquet : BOOLEAN, readable : BOOLEAN, cols : PartColumns, iids : PartIids]

\* Lines 51-59: the frames of the blobs named *issues.parquet that download
\* and parse; a blob that fails is reported and skipped.
RECURSIVE ReadBlobs(_, _, _)
ReadBlobs(blobs, p, dfs) ==
    IF p > Len(blobs) THEN dfs
    ELSE IF blobs[p].parquet /\ blobs[p].readable
         THEN ReadBlobs(blobs, p + 1, Append(dfs, PartFrame(p, blobs[p].cols, blobs[p].iids)))
         ELSE ReadBlobs(blobs, p + 1, dfs)

Orders(n) == { f \in [1..n -> 1..n] : \A i, j \in 1..n : f[i] = f[j] => i = j }

\* The positions of the partition files data/issues_postprocessed/
\* processing_date=*/issues.parquet, the local copies of the blobs.
ParquetFiles(blobs) ==
    SelectSeq([p \in 1..Len(blobs) |-> p], LAMBDA p : blobs[p].parquet)

LoadInit ==
    /\ PostIdle
    /\ MainIdle
    /\ StageIdle
    /\ load_pc = "start"
    /\ load_blobs \in UNION { [1..n -> Blobs] : n \in 0..MaxParts }
    /\ load_gcs_ok \in BOOLEAN
    /\ load_dfs = <<>>
    /\ load_result = EmptyFrame

\* load_data with the bucket reachable (lines 46-63, 75-87).
LoadFromBucket ==
    /\ load_pc = "start"
    /\ load_gcs_ok
    /\ LET dfs == ReadBlobs(load_blobs, 1, <<>>)
       IN  /\ load_dfs' = dfs
           /\ load_result' = IF dfs = <<>> THEN EmptyFrame ELSE Reconcile(dfs)
    /\ load_pc' = "loaded"
    /\ UNCHANGED <<load_blobs, load_gcs_ok, postVars, mainVars, stageVars>>

\* load_data with the bucket unreachable (lines 65-73, 75-87): the local
\* partition files, in the order Path.glob yields them; a file that does not
\* parse raises out of load_data.
LoadFromLocal ==
    /\ load_pc = "start"
    /\ ~load_gcs_ok
    /\ LET files == ParquetFiles(load_blobs)
       IN  \E order \in Orders(Len(files)) :
              LET parquet_files == [k \in 1..Len(files) |-> files[order[k]]]
              IN  IF \E k \in 1..Len(parquet_files) : ~load_blobs[parquet_files[k]].readable
                  THEN /\ load_dfs' = <<>>
                       /\ load_result' = [raised |-> TRUE, error |-> "read_parquet"]
                  ELSE LET dfs == [k \in 1..Len(parquet_files) |->
                                     PartFrame(parquet_files[k],
                                               load_blobs[parquet_files[k]].cols,
                                               load_blobs[parquet_files[k]].iids)]
                       IN  /\ load_dfs' = dfs
                           /\ load_result' = IF dfs = <<>> THEN EmptyFrame ELSE Reconcile(dfs)
    /\ load_pc' = "loaded"
    /\ UNCHANGED <<load_blobs, load_gcs_ok, postVars, mainVars, stageVars>>

LoadNext == LoadFromBucket \/ LoadFromLocal

SpecLoad == LoadInit /\ [][LoadNext]_vars

\* ------------------------------------------------------------------ claims on the reader
LastFrameWith(dfs, iid) ==
    CHOOSE p \in 1..Len(dfs) :
        /\ \E i \in 1..Len(dfs[p].rows) : dfs[p].rows[i].iid = iid
        /\ \A q \in (p + 1)..Len(dfs) : \A i \in 1..Len(dfs[q].rows) : dfs[q].rows[i].iid # iid

IidsRead(dfs) ==
    UNION { { dfs[p].rows[i].iid : i \in 1..Len(dfs[p].rows) } : p \in 1..Len(dfs) }

\* C10: reconciling the partitions read gives the union of their columns,
\* null where a partition lacks a column, and exactly one row per iid, which
\* for an iid in more than one partition is the row of the later partition.
C10_ReconcileUnionKeepLast ==
    (load_pc = "loaded" /\ load_dfs # <<>>) =>
        /\ ~load_result.raised
        /\ load_result.cols = UNION { load_dfs[p].cols : p \in 1..Len(load_dfs) }
        /\ { r.iid : r \in load_result.rows } = IidsRead(load_dfs)
        /\ \A r \in load_result.rows :
              /\ DOMAIN r = load_result.cols
              /\ \A r2 \in load_result.rows : r2.iid = r.iid => r2 = r
              /\ LET df == load_dfs[LastFrameWith(load_dfs, r.iid)]
                 IN  \A c \in load_result.cols :
                        r[c] = IF c = "iid" THEN r.iid
                               ELSE IF c \in df.cols THEN df.rows[1][c] ELSE NULL

\* ------------------------------------------------------------------ SpecMain
\* Runs of ingest.main, one after the other, against the metadata file, the
\* partition directory and the bucket they leave behind.
MainInit ==
    /\ PostIdle
    /\ LoadIdle
    /\ StageIdle
    /\ pc = "idle"
    /\ run_metadata_file \in MetadataFiles
    /\ file_at_start = run_metadata_file
    /\ metadata = NoPriorRun
    /\ fetched = <<>>
    /\ issues = <<>>
    /\ work_df = Table({}, <<>>)
    /\ calls = NoCalls
    /\ raised_at = ""
    /\ success = "None"
    /\ partitions = [d \in Dates |-> NoPartition]
    /\ bucket = [d \in Dates |-> NoPartition]

\* An exception reaches the handler of main: return False.
Fail(stage) ==
    /\ raised_at' = stage
    /\ success' = "False"
    /\ run_metadata_file' = ExceptHandler(run_metadata_file)
    /\ pc' = "returned"
    /\ UNCHANGED <<file_at_start, metadata, fetched, issues, work_df, calls, partitions, bucket>>

\* main is entered: the metadata of the last run is loaded, outside the try
\* block, so an exception of load_run_metadata would end the process.
StartRun ==
    /\ pc \in {"idle", "returned"}
    /\ LET r == load_run_metadata(run_metadata_file)
       IN  IF r.raised
           THEN /\ raised_at' = "load_run_metadata"
                /\ success' = "Raised"
                /\ pc' = "returned"
                /\ UNCHANGED metadata
           ELSE /\ metadata' = r.value
                /\ raised_at' = ""
                /\ success' = "None"
                /\ pc' = "fetch"
    /\ file_at_start' = run_metadata_file
    /\ fetched' = <<>>
    /\ issues' = <<>>
    /\ work_df' = Table({}, <<>>)
    /\ calls' = NoCalls
    /\ UNCHANGED <<run_metadata_file, partitions, bucket, postVars, loadVars, stageVars>>

\* Step 1: u.fetch_all_gitlab_issues returns the issues or raises.
Fetch ==
    /\ pc = "fetch"
    /\ \E r \in {Raised("HTTPError")} \cup {Ok(l) : l \in FetchResults} :
         IF r.raised THEN Fail("fetch")
         ELSE /\ fetched' = r.value
              /\ issues' = r.value
              /\ pc' = "filter"
              /\ UNCHANGED <<run_metadata_file, file_at_start, metadata, work_df, calls,
                             raised_at, success, partitions, bucket>>
    /\ UNCHANGED <<postVars, loadVars, stageVars>>

\* Lines 358-377: the new issues; none is a successful run.
Filter ==
    /\ pc = "filter"
    /\ LET r == FilterNew(issues, metadata.last_successful_run)
       IN  IF r.raised THEN Fail("filter")
           ELSE /\ issues' = r.value
                /\ IF r.value = <<>>
                   THEN success' = "True" /\ pc' = "returned"
                   ELSE success' = success /\ pc' = "clean"
                /\ UNCHANGED <<run_metadata_file, file_at_start, metadata, fetched, work_df, calls,
                               raised_at, partitions, bucket>>
    /\ UNCHANGED <<postVars, loadVars, stageVars>>

\* Step 2: clean_issues_df and prepare_issues_df.
Clean ==
    /\ pc = "clean"
    /\ \E r \in clean_issues_df(issues, IDS_TO_EXCLUDE) :
         IF r.raised THEN Fail("clean")
         ELSE /\ work_df' = prepare_issues_df(r.value, DESC_TO_EXCLUDE)
              /\ pc' = "sentiment"
              /\ UNCHANGED <<run_metadata_file, file_at_start, metadata, fetched, issues, calls,
                             raised_at, success, partitions, bucket>>
    /\ UNCHANGED <<postVars, loadVars, stageVars>>

\* Step 3: init_sentiment_client, which raises when the client cannot be
\* made, and add_sentiment_scores.
Sentiment ==
    /\ pc = "sentiment"
    /\ \E client_made \in BOOLEAN, outcomes \in [1..Len(work_df.rows) -> SentimentOutcomes] :
         LET r == add_sentiment_scores(work_df, outcomes)
         IN  IF ~client_made THEN Fail("init_sentiment_client")
             ELSE IF r.raised THEN Fail("sentiment")
             ELSE /\ work_df' = r.value
                  /\ calls' = [calls EXCEPT !.sentiment = outcomes]
                  /\ pc' = "labels"
                  /\ UNCHANGED <<run_metadata_file, file_at_start, metadata, fetched, issues,
                                 raised_at, success, partitions, bucket>>
    /\ UNCHANGED <<postVars, loadVars, stageVars>>

\* Step 4: init_genai_client and add_labels.
Labels ==
    /\ pc = "labels"
    /\ \E client_made \in BOOLEAN, outcomes \in [1..Len(work_df.rows) -> LabelOutcomes] :
         IF ~client_made THEN Fail("init_genai_client")
         ELSE /\ work_df' = add_labels(work_df, outcomes)
              /\ calls' = [calls EXCEPT !.labels = outcomes]
              /\ pc' = "org"
              /\ UNCHANGED <<run_metadata_file, file_at_start, metadata, fetched, issues,
                             raised_at, success, partitions, bucket>>
    /\ UNCHANGED <<postVars, loadVars, stageVars>>

\* Step 5: add_organization_attribution.
Org ==
    /\ pc = "org"
    /\ \E outcomes \in [1..Len(work_df.rows) -> OrgOutcomes] :
         /\ work_df' = add_organization_attribution(work_df, outcomes)
         /\ calls' = [calls EXCEPT !.org = outcomes]
    /\ pc' = "postprocess"
    /\ UNCHANGED <<run_metadata_file, file_at_start, metadata, fetched, issues,
                   raised_at, success, partitions, bucket, postVars, loadVars, stageVars>>

\* Steps 6 to 9 and the metadata, lines 399-434: postprocess, feedback round,
\* the partition of today's date written over whatever it held, the upload,
\* save_run_metadata, return True.
PostprocessAndPersist ==
    /\ pc = "postprocess"
    /\ LET r == CallPostprocess(<<work_df, KEYWORDS_VERSION>>)
       IN  IF r.raised THEN Fail("postprocess")
           ELSE \E processing_date \in Dates, upload_works \in BOOLEAN,
                   written \in {"ok", "unchanged", "truncated"} :
                  LET df_postprocessed ==
                          Table(r.value.cols \cup {"feedback_round"},
                                MapSeq(r.value.rows, FeedbackRound))
                      local == [partitions EXCEPT ![processing_date] = Partition(df_postprocessed)]
                      m == Metadata(MaxCreatedAt(df_postprocessed.rows), Len(issues),
                                    Len(df_postprocessed.rows))
                  IN  /\ work_df' = df_postprocessed
                      /\ partitions' = local
                      /\ bucket' = upload_to_gcs(bucket, processing_date, local, upload_works)
                      /\ metadata' = m
                      /\ run_metadata_file' = save_run_metadata(run_metadata_file, m, written)
                      /\ success' = "True"
                      /\ pc' = "returned"
                      /\ UNCHANGED <<file_at_start, fetched, issues, calls, raised_at>>
    /\ UNCHANGED <<postVars, loadVars, stageVars>>

MainNext ==
    \/ StartRun
    \/ Fetch
    \/ Filter
    \/ Clean
    \/ Sentiment
    \/ Labels
    \/ Org
    \/ PostprocessAndPersist

Spec == MainInit /\ [][MainNext]_vars

\* ------------------------------------------------------------------ claims on the pipeline
RunFailed == pc = "returned" /\ raised_at # ""

\* The run fetched new records, parsed, cleaned and enriched them.
RunProcessedRecords ==
    /\ pc = "returned"
    /\ raised_at \notin {"fetch", "filter", "clean", "init_sentiment_client", "init_genai_client"}
    /\ work_df.rows # <<>>

\* C1: the run metadata is written only by the step that follows fetch,
\* filter, clean, enrichment and postprocess in a run that raised nowhere, and
\* a run in which a stage raised ends with the stored metadata it started with.
C1_MetadataSavedOnlyAfterFullRun ==
    [][ /\ (run_metadata_file' # run_metadata_file) =>
               (pc = "postprocess" /\ pc' = "returned" /\ raised_at' = "" /\ success' = "True")
        /\ (pc' = "returned" /\ raised_at' # "") => run_metadata_file' = file_at_start' ]_vars

\* A run with a stored watermark that enriched its new records and then raised
\* has ended with the metadata file as it found it.
C1_Witness ==
    /\ RunFailed
    /\ raised_at = "postprocess"
    /\ work_df.rows # <<>>
    /\ file_at_start.state = "json"
    /\ file_at_start.data.last_successful_run.fmt = "Z"
    /\ run_metadata_file = file_at_start

FilterDone ==
    \/ pc \in {"clean", "sentiment", "labels", "org", "postprocess"}
    \/ pc = "returned" /\ raised_at \notin {"fetch", "filter"}

\* C3: with a stored watermark T the records handed to the cleaner are the
\* fetched records with created_at > T, in the order fetched; without a
\* watermark they are all the fetched records.
C3_OnlyNewerThanWatermark ==
    FilterDone =>
        LET T == metadata.last_successful_run
        IN  issues = IF T.fmt = "none" THEN fetched
                     ELSE SelectSeq(fetched, LAMBDA i : i.created_at.t > T.t)

\* A record created at T was fetched before a later one; only the later one
\* went on to the cleaner.
C3_Witness ==
    /\ pc = "clean"
    /\ metadata.last_successful_run.fmt = "Z"
    /\ Len(fetched) = 2
    /\ fetched[1].created_at = metadata.last_successful_run
    /\ issues = <<fetched[2]>>

\* C4: a run whose fetch succeeded with at least one new record, whose
\* timestamps all parsed and whose service clients could be made returns True.
C4_RunSucceedsAfterFetchAndParse ==
    (/\ pc = "returned"
     /\ raised_at \notin {"fetch", "filter", "clean", "init_sentiment_client", "init_genai_client"}
     /\ issues # <<>>) => success = "True"

\* C14: a run that found the metadata file missing or unparsable has loaded
\* the "no prior run" value (no watermark, zero fetched), has not raised in
\* load_run_metadata or in the filter, and hands every fetched record on to
\* the cleaner.
C14_MissingOrCorruptMetadataIsNoPriorRun ==
    (pc # "idle" /\ file_at_start.state \in {"missing", "corrupt"}) =>
        /\ metadata = NoPriorRun
        /\ raised_at \notin {"load_run_metadata", "filter"}
        /\ FilterDone => issues = fetched

\* The file was unparsable; two records were fetched and both reached the
\* cleaner.
C14_Witness ==
    /\ pc = "clean"
    /\ file_at_start = FileCorrupt
    /\ Len(fetched) = 2
    /\ issues = fetched

\* C16: the table handed to the postprocessor has the labels column of
\* add_labels and the org column of add_organization_attribution, also when
\* the cleaner left no row.
C16_EnrichmentColumnsAlwaysPresent ==
    (pc = "postprocess" \/ (pc = "returned" /\ raised_at = "postprocess")) =>
        {LabelsColumn, "org"} \subseteq work_df.cols

\* C6: a remote call that throws for one record gives that record the default
\* (0.0, no labels, "Unklar"), an empty text scores 0.0 without a call, every
\* other record gets what its call returned, and no run ends in an exception
\* of an enrichment call.
C6_EnrichmentNeverRaises ==
    /\ raised_at \notin {"sentiment", "labels", "org"}
    /\ \A o \in SentimentOutcomes : get_sentiment_score(o, <<>>) = Ok(0)
    /\ \A i \in 1..Len(calls.sentiment) :
          work_df.rows[i].sentiment =
              IF calls.sentiment[i] = Throw THEN 0 ELSE calls.sentiment[i].score
    /\ \A i \in 1..Len(calls.labels) :
          work_df.rows[i][LabelsColumn] =
              IF calls.labels[i] = Throw THEN <<>> ELSE <<Str("A"), Str("B")>>
    /\ \A i \in 1..Len(calls.org) :
          work_df.rows[i].org =
              IF calls.org[i] = Throw THEN Unklar ELSE Str("publicplan GmbH")

\* Of two records the first one's sentiment and label calls threw and the
\* second one's organization call threw; all three stages ran to their end.
C6_Witness ==
    /\ pc = "postprocess"
    /\ Len(work_df.rows) = 2
    /\ calls.sentiment[1] = Throw /\ calls.sentiment[2] # Throw
    /\ calls.labels[1] = Throw /\ calls.labels[2] # Throw
    /\ calls.org[1] # Throw /\ calls.org[2] = Throw
    /\ work_df.rows[1].sentiment = 0
    /\ work_df.rows[2][LabelsColumn] = <<Str("A"), Str("B")>>
    /\ work_df.rows[2].org = Unklar

\* ------------------------------------------------------------------ SpecPost
\* The classifier and the postprocessor as functions, on bounded tables: the
\* classifier's results stand in the column postprocess_issues reads.
PostRows ==
    UNION { [1..n -> FormPages] : n \in 0..MaxRows }

PostInit ==
    /\ LoadIdle
    /\ MainIdle
    /\ StageIdle
    /\ post_pc = "prepared"
    /\ \E pages \in PostRows :
         post_df = Table({"iid", "form_page"},
                         [i \in 1..Len(pages) |-> [iid |-> 8 + i, form_page |-> pages[i]]])
    /\ post_resp = <<>>
    /\ post_out = Table({}, <<>>)
    /\ post_out2 = Table({}, <<>>)

\* One classifier call per row.
PostAddLabels ==
    /\ post_pc = "prepared"
    /\ \E outcomes \in [1..Len(post_df.rows) -> ClassifierOutcomes] :
         /\ post_resp' = outcomes
         /\ post_df' = WithColumn(post_df, "labels",
                [i \in 1..Len(post_df.rows) |->
                    classify_issue_multilabel(outcomes[i], LABELS).value])
    /\ post_pc' = "labelled"
    /\ UNCHANGED <<post_out, post_out2, loadVars, mainVars, stageVars>>

PostOnce ==
    /\ post_pc = "labelled"
    /\ PostprocessColumns \subseteq post_df.cols
    /\ post_out' = postprocess_issues(post_df)
    /\ post_pc' = "once"
    /\ UNCHANGED <<post_df, post_resp, post_out2, loadVars, mainVars, stageVars>>

PostTwice ==
    /\ post_pc = "once"
    /\ post_out2' = postprocess_issues(post_out)
    /\ post_pc' = "twice"
    /\ UNCHANGED <<post_df, post_resp, post_out, loadVars, mainVars, stageVars>>

PostNext == PostAddLabels \/ PostOnce \/ PostTwice

SpecPost == PostInit /\ [][PostNext]_vars

\* ------------------------------------------------------------------ claims on the postprocessor
AllowedAfterPost == Range(LABELS) \cup {Unklar}

C8_FormPageNormalizedAndNotExcluded ==
    post_pc \in {"once", "twice"} =>
        \A i \in 1..Len(post_out.rows) :
            /\ ~EndsWithSlash(post_out.rows[i].form_page)
            /\ post_out.rows[i].form_page \notin EXCLUDE_PAGES

\* C9: postprocess_issues applied to its own output returns that output: the
\* same rows, labels and form_page values.
C9_PostprocessIdempotent ==
    post_pc = "twice" => post_out2 = post_out

\* ------------------------------------------------------------------ SpecDriver
\* The batch loops of add_labels and add_organization_attribution, one
\* record at a time: the call of the client, the pause, the column written at
\* the end of each batch.  drv_log lists the calls made, each with the remote
\* outcome it met and the pause that followed.
BatchSizes == {1, 2, BATCH_SIZE}

DrvRow(k) == [iid |-> 8 + k, title |-> <<"Vorschlag">>, desc_clean |-> <<"Anderer Text">>]
DrvTable(n) == Table({"iid", "title", "desc_clean"}, [k \in 1..n |-> DrvRow(k)])

DrvOutcomes(kind) == IF kind = "labels" THEN LabelOutcomes ELSE OrgOutcomes
DrvColumn(kind) == IF kind = "labels" THEN LabelsColumn ELSE "org"
DrvDefault(kind) == IF kind = "labels" THEN <<>> ELSE Unklar

\* The enrichment client the loop calls for one record.
Client(kind, outcome) ==
    IF kind = "labels" THEN classify_issue_multilabel(outcome, LABELS)
    ELSE add_issue_org_attribution(outcome)

\* end_idx = min(i + BATCH_SIZE, len(df)).
EndIdx(i, size, n) == IF i + size < n THEN i + size ELSE n

\* The index of the first row again, whatever the batch.
RowIdxInBatch(i, j) == j

\* row_idx = i + j.
RowIdx(i, j) == i + j

DrvInit ==
    /\ PostIdle
    /\ LoadIdle
    /\ MainIdle
    /\ FetchIdle
    /\ PrepIdle
    /\ drv_pc = "loop"
    /\ drv_kind \in {"labels", "org"}
    /\ drv_size \in BatchSizes
    /\ \E n \in 0..MaxRecords :
         /\ drv_in = DrvTable(n)
         /\ drv_outcomes \in [1..n -> DrvOutcomes(drv_kind)]
         /\ drv_list = [k \in 1..n |-> <<>>]
    /\ drv_df = drv_in
    /\ drv_i = 0
    /\ drv_j = 0
    /\ drv_log = <<>>

\* The body of the inner loop for one row: the call, its result or the
\* default stored, the pause.
DrvCall ==
    /\ drv_pc = "loop"
    /\ drv_i < Len(drv_in.rows)
    /\ drv_j < EndIdx(drv_i, drv_size, Len(drv_in.rows)) - drv_i
    /\ LET row_idx == RowIdx(drv_i, drv_j)
           outcome == drv_outcomes[row_idx + 1]
           r == Client(drv_kind, outcome)
           entry(sleep) == [row_idx |-> row_idx, iid |-> drv_df.rows[row_idx + 1].iid,
                            outcome |-> outcome, sleep |-> sleep]
       IN  IF ~r.raised
           THEN /\ drv_list' = [drv_list EXCEPT ![row_idx + 1] = r.value]
                /\ drv_log' = Append(drv_log, entry(RATE_LIMIT_SLEEP))
           ELSE /\ drv_list' = [drv_list EXCEPT ![row_idx + 1] = DrvDefault(drv_kind)]
                /\ drv_log' = Append(drv_log, entry(RATE_LIMIT_ERROR_SLEEP))
    /\ drv_j' = drv_j + 1
    /\ UNCHANGED <<drv_pc, drv_kind, drv_size, drv_outcomes, drv_in, drv_i, drv_df>>
    /\ UNCHANGED <<postVars, loadVars, mainVars, fetchVars, prepVars>>

\* The end of a batch: the column written from the list as it stands.
DrvBatchEnd ==
    /\ drv_pc = "loop"
    /\ drv_i < Len(drv_in.rows)
    /\ drv_j = EndIdx(drv_i, drv_size, Len(drv_in.rows)) - drv_i
    /\ drv_df' = WithColumn(drv_df, DrvColumn(drv_kind), drv_list)
    /\ drv_i' = drv_i + drv_size
    /\ drv_j' = 0
    /\ UNCHANGED <<drv_pc, drv_kind, drv_size, drv_outcomes, drv_in, drv_list, drv_log>>
    /\ UNCHANGED <<postVars, loadVars, mainVars, fetchVars, prepVars>>

\* range(0, len(df), BATCH_SIZE) is exhausted: return.
DrvReturn ==
    /\ drv_pc = "loop"
    /\ drv_i >= Len(drv_in.rows)
    /\ drv_pc' = "done"
    /\ UNCHANGED <<drv_kind, drv_size, drv_outcomes, drv_in, drv_i, drv_j, drv_list,
                   drv_df, drv_log>>
    /\ UNCHANGED <<postVars, loadVars, mainVars, fetchVars, prepVars>>

DrvNext == DrvCall \/ DrvBatchEnd \/ DrvReturn

SpecDriver == DrvInit /\ [][DrvNext]_vars

\* C11: the k-th call of the loop is the call for record k, each record is
\* called once, and the table returned holds for record k the client's result
\* for record k: the table add_labels / add_organization_attribution compute
\* in one piece, whatever the batch size.
C11_OneCallPerRecordInOrder ==
    /\ \A k \in 1..Len(drv_log) :
          /\ drv_log[k].row_idx = k - 1
          /\ drv_log[k].iid = drv_in.rows[k].iid
          /\ drv_log[k].outcome = drv_outcomes[k]
    /\ drv_pc = "done" =>
          /\ Len(drv_log) = Len(drv_in.rows)
          /\ Len(drv_df.rows) = Len(drv_in.rows)
          /\ \A k \in 1..Len(drv_df.rows) :
                drv_df.rows[k][DrvColumn(drv_kind)] = Client(drv_kind, drv_outcomes[k]).value
          /\ drv_df = IF drv_kind = "labels" THEN add_labels(drv_in, drv_outcomes)
                      ELSE add_organization_attribution(drv_in, drv_outcomes)

\* Three records went through in two batches of two and one; the call for
\* the second record threw.
C11_Witness ==
    /\ drv_pc = "done"
    /\ drv_size = 2
    /\ Len(drv_in.rows) = 3
    /\ drv_outcomes[2] = Throw
    /\ drv_outcomes[3] # Throw
    /\ Len(drv_log) = 3

\* C12: the pause after a record's remote call is RATE_LIMIT_SLEEP when the
\* remote call succeeded and RATE_LIMIT_ERROR_SLEEP when it failed.
C12_PauseFollowsOutcome ==
    \A k \in 1..Len(drv_log) :
        drv_log[k].sleep = IF drv_log[k].outcome = Throw THEN RATE_LIMIT_ERROR_SLEEP
                           ELSE RATE_LIMIT_SLEEP

\* ------------------------------------------------------------------ SpecFetch
\* utils.fetch_all_gitlab_issues, one page request at a time.  A request is
\* answered with a success status and a JSON list, with a non-success
\* status (raise_for_status raises), or not at all (session.get raises).
\* fetch_requests lists the page numbers asked for, fetch_responses the
\* answers, fetch_result what the caller gets.
FetchItems == {9, 10}

PageOk(batch) == [status |-> "ok", batch |-> batch]
PageError == [status |-> "error", batch |-> <<>>]
PageTimeout == [status |-> "timeout", batch |-> <<>>]

\* The tracker holds finitely many issues: from page MaxPages + 1 on a
\* successful answer is the empty list.
PageResponses(page) ==
    {PageError, PageTimeout}
        \cup {PageOk(b) : b \in IF page > MaxPages THEN {<<>>}
                                 ELSE SeqsUpTo(FetchItems, MaxPerPage)}

\* Only the page just read is kept.
KeepLastBatch(issue_list, batch) == batch

\* issues.extend(batch).
Extend(issue_list, batch) == issue_list \o batch

\* return issues.
FetchReturned(issue_list) == [state |-> "returned", value |-> issue_list]

\* The exception leaves the function; the list built so far is lost.
FetchRaised(issue_list) == [state |-> "raised", value |-> <<>>]

FetchInit ==
    /\ PostIdle
    /\ LoadIdle
    /\ MainIdle
    /\ DrvIdle
    /\ PrepIdle
    /\ fetch_pc = "loop"
    /\ fetch_page = 1
    /\ fetch_issues = <<>>
    /\ fetch_requests = <<>>
    /\ fetch_responses = <<>>
    /\ fetch_result = [state |-> "none", value |-> <<>>]

\* One turn of the while loop: the request for the current page, then
\* raise, break and return, or extend and go on to the next page.
FetchPage ==
    /\ fetch_pc = "loop"
    /\ \E resp \in PageResponses(fetch_page) :
         /\ fetch_requests' = Append(fetch_requests, fetch_page)
         /\ fetch_responses' = Append(fetch_responses, resp)
         /\ IF resp.status # "ok"
            THEN /\ fetch_pc' = "raised"
                 /\ fetch_result' = FetchRaised(fetch_issues)
                 /\ UNCHANGED <<fetch_page, fetch_issues>>
            ELSE IF resp.batch = <<>>
            THEN /\ fetch_pc' = "returned"
                 /\ fetch_result' = FetchReturned(fetch_issues)
                 /\ UNCHANGED <<fetch_page, fetch_issues>>
            ELSE /\ fetch_issues' = Extend(fetch_issues, resp.batch)
                 /\ fetch_page' = fetch_page + 1
                 /\ UNCHANGED <<fetch_pc, fetch_result>>
    /\ UNCHANGED <<postVars, loadVars, mainVars, drvVars, prepVars>>

FetchNext == FetchPage

SpecFetch == FetchInit /\ [][FetchNext]_vars

\* The batches of the answers, one after the other.
RECURSIVE Batches(_)
Batches(responses) ==
    IF responses = <<>> THEN <<>>
    ELSE Head(responses).batch \o Batches(Tail(responses))

AllButLast(s) == SubSeq(s, 1, Len(s) - 1)

\* C13: the pages asked for are 1, 2, 3, ... once each; the function returns
\* at the first empty page with the items of the earlier pages in page order;
\* at the first answer without a success status it raises and the caller
\* gets no list.
C13_PagesInOrderAllOrNothing ==
    /\ Len(fetch_responses) = Len(fetch_requests)
    /\ \A k \in 1..Len(fetch_requests) : fetch_requests[k] = k
    /\ fetch_pc = "loop" =>
          /\ \A k \in 1..Len(fetch_responses) :
                fetch_responses[k].status = "ok" /\ fetch_responses[k].batch # <<>>
          /\ fetch_result.state = "none"
    /\ fetch_pc = "returned" =>
          /\ fetch_responses[Len(fetch_responses)] = PageOk(<<>>)
          /\ \A k \in 1..Len(fetch_responses) - 1 :
                fetch_responses[k].status = "ok" /\ fetch_responses[k].batch # <<>>
          /\ fetch_result = [state |-> "returned", value |-> Batches(AllButLast(fetch_responses))]
    /\ fetch_pc = "raised" =>
          /\ fetch_responses[Len(fetch_responses)].status # "ok"
          /\ \A k \in 1..Len(fetch_responses) - 1 :
                fetch_responses[k].status = "ok" /\ fetch_responses[k].batch # <<>>
          /\ fetch_result = [state |-> "raised", value |-> <<>>]

\* Two pages of issues, then the empty page: both pages are returned.
C13_Witness ==
    /\ fetch_pc = "returned"
    /\ fetch_requests = <<1, 2, 3>>
    /\ fetch_responses[1].batch = <<9>>
    /\ fetch_responses[2].batch = <<10, 9>>
    /\ fetch_result.value = <<9, 10, 9>>

\* ------------------------------------------------------------------ SpecPrepare
\* utils.prepare_issues_df on the tables the cleaner can hand it: titles of
\* form and tracker issues, descriptions with and without the boilerplate,
\* with and without whitespace around a sentinel.
PrepTitles == { <<FormPrefix, " ", "/", "a", "/">>, <<"Vorschlag">> }

PrepDescriptions ==
    { <<>>,
      <<Boilerplate>>,
      <<"test">>,
      <<Boilerplate, "Test">>,
      <<Boilerplate, " ", "test">>,
      <<" ">>,
      <<"test", " ">>,
      <<Boilerplate, "Text">> }

PrepTable(c) ==
    Table(IssueColumns,
          [k \in 1..Len(c) |-> [iid |-> 8 + k, title |-> c[k][1], description |-> c[k][2],
                                created_at |-> 1]])

PrepTables ==
    { PrepTable(c) : c \in UNION { [1..n -> PrepTitles \X PrepDescriptions] : n \in 0..MaxPrepRows } }

PrepInit ==
    /\ PostIdle
    /\ LoadIdle
    /\ MainIdle
    /\ DrvIdle
    /\ FetchIdle
    /\ prep_pc = "start"
    /\ prep_in \in PrepTables
    /\ prep_out = Table({}, <<>>)

Prepare ==
    /\ prep_pc = "start"
    /\ prep_out' = prepare_issues_df(prep_in, DESC_TO_EXCLUDE)
    /\ prep_pc' = "done"
    /\ UNCHANGED <<prep_in, postVars, loadVars, mainVars, drvVars, fetchVars>>

PrepNext == Prepare

SpecPrepare == PrepInit /\ [][PrepNext]_vars

\* C15: the records prepare_issues_df returns are the records whose
\* description, the boilerplate removed and the surrounding whitespace
\* stripped, is none of the sentinels, in their order; all others are dropped.
C15_SentinelDescriptionsDropped ==
    prep_pc = "done" =>
        LET keep(row) ==
                Strip(SelectSeq(row.description, LAMBDA tok : tok # Boilerplate))
                    \notin DESC_TO_EXCLUDE
            expected == SelectSeq(prep_in.rows, keep)
        IN  /\ Len(prep_out.rows) = Len(expected)
            /\ \A k \in 1..Len(expected) : prep_out.rows[k].iid = expected[k].iid

====
